---- MODULE Spec2Model ----
(***************************************************************************)
(* Model of the legal-document key-term pipeline:                          *)
(*   legaldocs/preprocess.py  TermExtractionHandler (curation, section     *)
(*                            mapping, record files)                       *)
(*   legaldocs/evaluate.py    parse_term_extraction_results                *)
(*   update.py                TermExtractionUpdater (hash polling monitor) *)
(* Python str values are TLA+ strings; a character is a string of length 1.*)
(***************************************************************************)
EXTENDS Integers, Sequences, FiniteSets, TLC

\* ------------------------------------------------------------------------
\* Python str primitives
\* ------------------------------------------------------------------------

UpperChars == "ABCDEFGHIJKLMNOPQRSTUVWXYZ"

LowerChars == "abcdefghijklmnopqrstuvwxyz"

Digits == {"0", "1", "2", "3", "4", "5", "6", "7", "8", "9"}

\* str.isspace for the characters of the model's alphabets (also regex \s)
IsSpace(c) == c \in {" ", "\n", "\t", "\r"}

\* regex \w : letters, digits, underscore
IsWord(c) ==
    \/ c \in Digits
    \/ c = "_"
    \/ \E i \in 1..26 : c = SubSeq(UpperChars, i, i) \/ c = SubSeq(LowerChars, i, i)

CharAt(s, i) == SubSeq(s, i, i)

\* s[i:] with a 0-based Python index i >= 0
SliceFrom(s, i) == SubSeq(s, i + 1, Len(s))

LowerChar(c) ==
    IF \E i \in 1..26 : c = SubSeq(UpperChars, i, i)
    THEN LET i == CHOOSE j \in 1..26 : c = SubSeq(UpperChars, j, j)
         IN  SubSeq(LowerChars, i, i)
    ELSE c

RECURSIVE lower(_)
\* str.lower
lower(s) ==
    IF s = "" THEN "" ELSE LowerChar(CharAt(s, 1)) \o lower(SliceFrom(s, 1))

\* str.startswith
startswith(s, p) == Len(s) >= Len(p) /\ SubSeq(s, 1, Len(p)) = p

\* the Python operator `t in s` on two str
Contains(s, t) ==
    \E i \in 1..(Len(s) - Len(t) + 1) : SubSeq(s, i, i + Len(t) - 1) = t

RECURSIVE lstrip(_)
lstrip(s) ==
    IF s # "" /\ IsSpace(CharAt(s, 1)) THEN lstrip(SliceFrom(s, 1)) ELSE s

RECURSIVE rstrip(_)
rstrip(s) ==
    IF s # "" /\ IsSpace(CharAt(s, Len(s)))
    THEN rstrip(SubSeq(s, 1, Len(s) - 1))
    ELSE s

\* str.strip
strip(s) == rstrip(lstrip(s))

RECURSIVE replace(_, _, _)
\* str.replace(old, new) for non-empty old
replace(s, old, new) ==
    IF s = "" THEN ""
    ELSE IF startswith(s, old)
         THEN new \o replace(SliceFrom(s, Len(old)), old, new)
         ELSE CharAt(s, 1) \o replace(SliceFrom(s, 1), old, new)

\* position (1-based) of the first occurrence of c at or after i, else Len+1
RECURSIVE FindChar(_, _, _)
FindChar(s, c, i) ==
    IF i > Len(s) THEN Len(s) + 1
    ELSE IF CharAt(s, i) = c THEN i
    ELSE FindChar(s, c, i + 1)

RECURSIVE splitlines(_)
\* str.splitlines: lines end at "\n"; no empty last line after a final "\n"
splitlines(s) ==
    IF s = "" THEN << >>
    ELSE LET p == FindChar(s, "\n", 1)
         IN  <<SubSeq(s, 1, p - 1)>> \o splitlines(SubSeq(s, p + 1, Len(s)))

\* line.split(":")[1] for a line that holds at least one ":"
SplitColon1(line) ==
    LET p == FindChar(line, ":", 1)
        q == FindChar(line, ":", p + 1)
    IN  SubSeq(line, p + 1, q - 1)

\* the set of elements of a list
Range(seq) == {seq[i] : i \in 1..Len(seq)}

\* list(a_set): the elements once each, in an order the language leaves open
ListsOf(S) ==
    {l \in [1..Cardinality(S) -> S] : \A i, j \in 1..Cardinality(S) : l[i] = l[j] => i = j}

RECURSIVE JoinAll(_)
\* "".join(list)
JoinAll(seq) == IF seq = << >> THEN "" ELSE Head(seq) \o JoinAll(Tail(seq))

\* ------------------------------------------------------------------------
\* dict values: a list of [term, sections] entries in insertion order
\* ------------------------------------------------------------------------

DictKeys(d) == {d[i].term : i \in 1..Len(d)}

DictGet(d, k) == LET i == CHOOSE j \in 1..Len(d) : d[j].term = k IN d[i].sections

\* d[k] = v : overwrite in place, or insert at the end
DictSet(d, k, v) ==
    IF k \in DictKeys(d)
    THEN [i \in 1..Len(d) |-> IF d[i].term = k THEN [term |-> k, sections |-> v] ELSE d[i]]
    ELSE Append(d, [term |-> k, sections |-> v])

\* ------------------------------------------------------------------------
\* preprocess.py : curation
\* ------------------------------------------------------------------------

critical_terms == <<"confidentiality", "security deposit", "employee's duties">>

RECURSIVE CriticalLoop(_, _, _)
\* the for loop of ensure_critical_terms from index i on
CriticalLoop(extracted, text_lower, i) ==
    IF i > Len(critical_terms) THEN extracted
    ELSE LET term == critical_terms[i]
         IN  IF Contains(text_lower, term)
             THEN CriticalLoop(extracted \cup {term}, text_lower, i + 1)
             ELSE CriticalLoop(extracted, text_lower, i + 1)

\* variant: the text is searched as it is, without lower()
ensure_critical_terms_cased(extracted, txt) == CriticalLoop(extracted, txt, 1)

\* the set that ensure_critical_terms holds when it returns list(extracted_terms)
ensure_critical_terms(extracted, txt) == CriticalLoop(extracted, lower(txt), 1)

RECURSIVE GroundTruthLoop(_, _, _, _)
\* the for loop of ensure_ground_truth_terms; gt_order is the order in which
\* the ground-truth set is iterated
GroundTruthLoop(extracted, gt_order, text_lower, i) ==
    IF i > Len(gt_order) THEN extracted
    ELSE LET term == gt_order[i]
         IN  IF Contains(text_lower, term) /\ term \notin Range(extracted)
             THEN GroundTruthLoop(Append(extracted, term), gt_order, text_lower, i + 1)
             ELSE GroundTruthLoop(extracted, gt_order, text_lower, i + 1)

\* variant: the list comes back as it was given
ensure_ground_truth_terms_none(extracted, gt_order, txt) == extracted

ensure_ground_truth_terms(extracted, gt_order, txt) ==
    GroundTruthLoop(extracted, gt_order, lower(txt), 1)

\* variant: nothing is filtered out
filter_relevant_terms_all(terms, gt) == terms

filter_relevant_terms(terms, gt) ==
    LET keep(term) == term \in gt IN SelectSeq(terms, keep)

\* ------------------------------------------------------------------------
\* preprocess.py : section mapping
\* ------------------------------------------------------------------------

RECURSIVE DigitsEnd(_, _)
\* position after the run of digits that starts at p
DigitsEnd(txt, p) ==
    IF p <= Len(txt) /\ CharAt(txt, p) \in Digits THEN DigitsEnd(txt, p + 1) ELSE p

\* \b\d+\.\s matches with its first character at position p
HeadingAt(txt, p) ==
    LET e == DigitsEnd(txt, p)
    IN  /\ p <= Len(txt)
        /\ e > p
        /\ (p = 1 \/ ~IsWord(CharAt(txt, p - 1)))
        /\ e + 1 <= Len(txt)
        /\ CharAt(txt, e) = "."
        /\ IsSpace(CharAt(txt, e + 1))

\* variant: the pattern without the lookahead consumes the heading number
BoundaryEndConsuming(txt, p) == DigitsEnd(txt, p) + 2

\* position at which a match of the pattern r"(?=\b\d+\.\s)" that starts at p
\* ends: the lookahead consumes nothing
BoundaryEnd(txt, p) == p

RECURSIVE SplitFrom(_, _, _, _)
\* re.split: the pieces between successive matches; after an empty match the
\* next match may not be empty at the same position
SplitFrom(txt, last, pos, must_advance) ==
    LET found == {q \in pos..Len(txt) :
                     /\ HeadingAt(txt, q)
                     /\ ~(must_advance /\ q = pos /\ BoundaryEnd(txt, q) = q)}
    IN  IF found = {} THEN <<SubSeq(txt, last, Len(txt))>>
        ELSE LET q == CHOOSE m \in found : \A n \in found : m <= n
                 e == BoundaryEnd(txt, q)
             IN  <<SubSeq(txt, last, q - 1)>> \o SplitFrom(txt, e, e, e = q)

\* re.split(r"(?=\b\d+\.\s)", text)
re_split(txt) == SplitFrom(txt, 1, 1, FALSE)

RECURSIVE SectionContexts(_, _, _, _)
\* the contexts map_terms_to_sections collects for one term
SectionContexts(sections, term, i, acc) ==
    IF i > Len(sections) THEN acc
    ELSE LET section == sections[i]
             section_context == replace(strip(section), "\n", " ")
         IN  IF Contains(lower(section), term) /\ section_context \notin Range(acc)
             THEN SectionContexts(sections, term, i + 1, Append(acc, section_context))
             ELSE SectionContexts(sections, term, i + 1, acc)

RECURSIVE MapLoop(_, _, _, _)
MapLoop(sections, terms, i, acc) ==
    IF i > Len(terms) THEN acc
    ELSE MapLoop(sections, terms, i + 1,
                 IF terms[i] \in DictKeys(acc) THEN acc
                 ELSE DictSet(acc, terms[i], SectionContexts(sections, terms[i], 1, << >>)))

map_terms_to_sections(txt, terms) ==
    LET nonempty(entry) == entry.sections # << >>
    IN  SelectSeq(MapLoop(re_split(txt), terms, 1, << >>), nonempty)

\* ------------------------------------------------------------------------
\* preprocess.py : record files
\* ------------------------------------------------------------------------

RECURSIVE BulletLines(_)
BulletLines(terms) ==
    IF terms = << >> THEN ""
    ELSE "- " \o Head(terms) \o "\n" \o BulletLines(Tail(terms))

RECURSIVE SectionLines(_)
SectionLines(sections) ==
    IF sections = << >> THEN ""
    ELSE "Section: " \o Head(sections) \o "\n" \o "\n---\n" \o SectionLines(Tail(sections))

RECURSIVE TermBlocks(_)
TermBlocks(d) ==
    IF d = << >> THEN ""
    ELSE "\nTerm: " \o Head(d).term \o "\n" \o SectionLines(Head(d).sections)
             \o TermBlocks(Tail(d))

\* the text save_term_extraction_results writes to the record file
RecordText(terms, d) ==
    "Extracted Key Terms:\n" \o BulletLines(terms) \o "\nMapped Sections:\n" \o TermBlocks(d)

\* the name of the record file of a document
RecordName(filename) == replace(filename, "_text.txt", "_terms.txt")

\* ------------------------------------------------------------------------
\* evaluate.py : parse_term_extraction_results
\* None is modelled by "": the code only tests current_term for truth
\* ------------------------------------------------------------------------

ParseStart == [raised |-> FALSE, terms |-> << >>, term_section_map |-> << >>, current_term |-> ""]

KeyError == [raised |-> TRUE, terms |-> << >>, term_section_map |-> << >>, current_term |-> ""]

\* one iteration of the for loop of evaluate.parse_term_extraction_results
ParseLine(st, line) ==
    IF st.raised THEN st
    ELSE IF startswith(line, "- ")
    THEN LET term == lower(strip(SliceFrom(line, 2)))
         IN  [st EXCEPT !.terms = Append(@, term),
                        !.term_section_map = DictSet(@, term, << >>),
                        !.current_term = term]
    ELSE IF startswith(line, "Term:")
    THEN [st EXCEPT !.current_term = lower(strip(SplitColon1(line)))]
    ELSE IF startswith(line, "Section:")
    THEN IF st.current_term = "" THEN st
         ELSE IF st.current_term \notin DictKeys(st.term_section_map) THEN KeyError
         ELSE [st EXCEPT !.term_section_map =
                   DictSet(@, st.current_term,
                           Append(DictGet(@, st.current_term),
                                  lower(strip(SliceFrom(line, 9)))))]
    ELSE st

RECURSIVE ParseLoop(_, _, _)
ParseLoop(st, lines, i) ==
    IF i > Len(lines) THEN st ELSE ParseLoop(ParseLine(st, lines[i]), lines, i + 1)

\* evaluate.parse_term_extraction_results: the (terms, term_section_map) it
\* returns, or raised = TRUE when it ends in a KeyError
parse_term_extraction_results(content) ==
    LET st == ParseLoop(ParseStart, splitlines(content), 1)
    IN  [raised |-> st.raised, terms |-> st.terms, term_section_map |-> st.term_section_map]

\* ------------------------------------------------------------------------
\* update.py : TermExtractionUpdater.parse_term_extraction_results
\* terms is a Python set there; nothing is lower-cased
\* ------------------------------------------------------------------------

UpdaterParseStart == [raised |-> FALSE, terms |-> {}, term_section_map |-> << >>, current_term |-> ""]

UpdaterKeyError == [raised |-> TRUE, terms |-> {}, term_section_map |-> << >>, current_term |-> ""]

UpdaterParseLine(st, line) ==
    IF st.raised THEN st
    ELSE IF startswith(line, "- ")
    THEN LET term == strip(SliceFrom(line, 2))
         IN  [st EXCEPT !.terms = @ \cup {term},
                        !.term_section_map = DictSet(@, term, << >>),
                        !.current_term = term]
    ELSE IF startswith(line, "Term:")
    THEN [st EXCEPT !.current_term = strip(SplitColon1(line))]
    ELSE IF startswith(line, "Section:")
    THEN IF st.current_term = "" THEN st
         ELSE IF st.current_term \notin DictKeys(st.term_section_map) THEN UpdaterKeyError
         ELSE [st EXCEPT !.term_section_map =
                   DictSet(@, st.current_term,
                           Append(DictGet(@, st.current_term), strip(SliceFrom(line, 9))))]
    ELSE st

RECURSIVE UpdaterParseLoop(_, _, _)
UpdaterParseLoop(st, lines, i) ==
    IF i > Len(lines) THEN st
    ELSE UpdaterParseLoop(UpdaterParseLine(st, lines[i]), lines, i + 1)

\* the set `terms` and the dict the updater's parser holds when it returns
\* (list(terms), term_section_map), or raised = TRUE for a KeyError
Updater_parse_term_extraction_results(content) ==
    LET st == UpdaterParseLoop(UpdaterParseStart, splitlines(content), 1)
    IN  [raised |-> st.raised, terms |-> st.terms, term_section_map |-> st.term_section_map]

\* ------------------------------------------------------------------------
\* State
\* ------------------------------------------------------------------------

VARIABLES
    texts,                \* process_files: filename -> text, from load_text_files
    doc_order,            \* order in which texts.items() yields the documents
    ground_truth_terms,   \* the set handed to process_files
    extractor,            \* what extract_key_terms answers for each document
    results_dir,          \* the results directory: record file name -> content
    pc,                   \* position of process_files / evaluate
    doc_idx,              \* index in doc_order of the document of the loop body
    extracted_set,        \* the set extract_key_terms returned (mutated in place)
    extracted_terms,      \* the list ensure_critical_terms returned
    ensured_terms,
    relevant_terms,
    sections,             \* local of map_terms_to_sections
    term_section_map,
    terms_map,            \* evaluate.load_terms_and_map: what it returns
    run,                  \* number of the run of process_files
    prev_results,         \* the results directory as the previous run left it
    term_extraction_results,  \* updater: filename -> [terms, term_section_map]
    file_hashes,          \* updater: list of [path, hash] entries, in dict order
    mpc,                  \* position of monitor_changes
    hash_idx,             \* index in file_hashes of the entry of the for loop
    listing,              \* load_term_extraction_results: names still to read
    loading,              \* load_term_extraction_results: its local `results`
    displayed,            \* documents displayed since the tick began
    writes,               \* number of writes of the external writer so far
    touched,              \* files the writer wrote or deleted since the tick began
    quiet                 \* complete ticks since the writer's last write

pipeline_vars ==
    <<texts, doc_order, ground_truth_terms, extractor, results_dir, pc, doc_idx,
      extracted_set, extracted_terms, ensured_terms, relevant_terms, sections,
      term_section_map, terms_map, run, prev_results>>

monitor_vars ==
    <<term_extraction_results, file_hashes, mpc, hash_idx, listing, loading,
      displayed, writes, touched, quiet>>

vars == <<pipeline_vars, monitor_vars>>

\* ------------------------------------------------------------------------
\* Bounds and input sets
\* ------------------------------------------------------------------------

MaxRuns == 2

DocNames == {"a_text.txt", "b_text.txt"}

PipelineTexts == {"1. Confidentiality\n2. Term", "the term 1. Security Deposit"}

GroundTruthSets == {{"confidentiality", "term"}, {"term", "security deposit"}, {}}

Answer(S) == [ok |-> TRUE, terms |-> S]

Failure == [ok |-> FALSE, terms |-> {}]

ExtractorAnswers ==
    {Failure, Answer({}), Answer({"term", "rent"}), Answer({"confidentiality", "term"})}

EmptyDir == [f \in {} |-> ""]

\* the directory with file f written (created or overwritten)
WriteFile(dir, f, content) == [g \in DOMAIN dir \cup {f} |-> IF g = f THEN content ELSE dir[g]]

cur_file == doc_order[doc_idx]

cur_text == texts[cur_file]

\* ------------------------------------------------------------------------
\* process_files (preprocess.py) and load_terms_and_map (evaluate.py)
\* ------------------------------------------------------------------------

NoLocals ==
    /\ extracted_set = {}
    /\ extracted_terms = << >>
    /\ ensured_terms = << >>
    /\ relevant_terms = << >>
    /\ sections = << >>
    /\ term_section_map = << >>
    /\ terms_map = EmptyDir

\* the updater is not running
MonitorIdle ==
    /\ term_extraction_results = EmptyDir
    /\ file_hashes = << >>
    /\ mpc = "off"
    /\ hash_idx = 1
    /\ listing = << >>
    /\ loading = EmptyDir
    /\ displayed = << >>
    /\ writes = 0
    /\ touched = {}
    /\ quiet = 0

Init ==
    /\ MonitorIdle
    /\ texts \in [DocNames -> PipelineTexts]
    /\ doc_order \in ListsOf(DocNames)
    /\ ground_truth_terms \in GroundTruthSets
    /\ extractor \in [DocNames -> ExtractorAnswers]
    /\ results_dir = EmptyDir
    /\ pc = "extract"
    /\ doc_idx = 1
    /\ NoLocals
    /\ run = 1
    /\ prev_results = EmptyDir

ExtractKeyTerms ==
    /\ pc = "extract"
    /\ extractor[cur_file].ok
    /\ extracted_set' = extractor[cur_file].terms
    /\ pc' = "critical"
    /\ UNCHANGED <<monitor_vars, texts, doc_order, ground_truth_terms, extractor, results_dir, doc_idx,
                   extracted_terms, ensured_terms, relevant_terms, sections,
                   term_section_map, terms_map, run, prev_results>>

\* the extractor raises: process_files has no handler, the exception ends it
ExtractKeyTermsRaises ==
    /\ pc = "extract"
    /\ ~extractor[cur_file].ok
    /\ pc' = "raised"
    /\ UNCHANGED <<monitor_vars, texts, doc_order, ground_truth_terms, extractor, results_dir, doc_idx,
                   extracted_set, extracted_terms, ensured_terms, relevant_terms, sections,
                   term_section_map, terms_map, run, prev_results>>

EnsureCriticalTerms ==
    /\ pc = "critical"
    /\ extracted_set' = ensure_critical_terms(extracted_set, cur_text)
    /\ extracted_terms' \in ListsOf(extracted_set')
    /\ pc' = "ground"
    /\ UNCHANGED <<monitor_vars, texts, doc_order, ground_truth_terms, extractor, results_dir, doc_idx,
                   ensured_terms, relevant_terms, sections, term_section_map, terms_map,
                   run, prev_results>>

\* appends to the list it was given, and returns a copy of it
EnsureGroundTruthTerms ==
    /\ pc = "ground"
    /\ \E gt_order \in ListsOf(ground_truth_terms) :
          extracted_terms' = ensure_ground_truth_terms(extracted_terms, gt_order, cur_text)
    /\ ensured_terms' = extracted_terms'
    /\ pc' = "filter"
    /\ UNCHANGED <<monitor_vars, texts, doc_order, ground_truth_terms, extractor, results_dir, doc_idx,
                   extracted_set, relevant_terms, sections, term_section_map, terms_map,
                   run, prev_results>>

FilterRelevantTerms ==
    /\ pc = "filter"
    /\ relevant_terms' = filter_relevant_terms(ensured_terms, ground_truth_terms)
    /\ pc' = "map"
    /\ UNCHANGED <<monitor_vars, texts, doc_order, ground_truth_terms, extractor, results_dir, doc_idx,
                   extracted_set, extracted_terms, ensured_terms, sections,
                   term_section_map, terms_map, run, prev_results>>

MapTermsToSections ==
    /\ pc = "map"
    /\ sections' = re_split(cur_text)
    /\ term_section_map' = map_terms_to_sections(cur_text, relevant_terms)
    /\ pc' = "save"
    /\ UNCHANGED <<monitor_vars, texts, doc_order, ground_truth_terms, extractor, results_dir, doc_idx,
                   extracted_set, extracted_terms, ensured_terms, relevant_terms,
                   terms_map, run, prev_results>>

SaveTermExtractionResults ==
    /\ pc = "save"
    /\ results_dir' = WriteFile(results_dir, RecordName(cur_file),
                                RecordText(relevant_terms, term_section_map))
    /\ pc' = "next"
    /\ UNCHANGED <<monitor_vars, texts, doc_order, ground_truth_terms, extractor, doc_idx,
                   extracted_set, extracted_terms, ensured_terms, relevant_terms, sections,
                   term_section_map, terms_map, run, prev_results>>

\* the for statement of process_files takes the next document, or ends
NextDocument ==
    /\ pc = "next"
    /\ IF doc_idx < Len(doc_order)
       THEN doc_idx' = doc_idx + 1 /\ pc' = "extract"
       ELSE doc_idx' = doc_idx /\ pc' = "done"
    /\ UNCHANGED <<monitor_vars, texts, doc_order, ground_truth_terms, extractor, results_dir,
                   extracted_set, extracted_terms, ensured_terms, relevant_terms, sections,
                   term_section_map, terms_map, run, prev_results>>

\* evaluate.load_terms_and_map over the results directory (main.py runs it
\* after preprocess); an exception of the parser ends it
LoadTermsAndMap ==
    /\ pc = "done"
    /\ LET parsed == [f \in DOMAIN results_dir |-> parse_term_extraction_results(results_dir[f])]
       IN  IF \E f \in DOMAIN parsed : parsed[f].raised
           THEN pc' = "eval_raised" /\ terms_map' = terms_map
           ELSE pc' = "evaluated" /\ terms_map' = parsed
    /\ UNCHANGED <<monitor_vars, texts, doc_order, ground_truth_terms, extractor, results_dir, doc_idx,
                   extracted_set, extracted_terms, ensured_terms, relevant_terms, sections,
                   term_section_map, run, prev_results>>

\* the program is started again on the same documents and ground truth
StartRun ==
    /\ pc \in {"done", "evaluated"}
    /\ run < MaxRuns
    /\ run' = run + 1
    /\ prev_results' = results_dir
    /\ doc_order' \in ListsOf(DocNames)
    /\ doc_idx' = 1
    /\ pc' = "extract"
    /\ extracted_set' = {}
    /\ extracted_terms' = << >>
    /\ ensured_terms' = << >>
    /\ relevant_terms' = << >>
    /\ sections' = << >>
    /\ term_section_map' = << >>
    /\ terms_map' = EmptyDir
    /\ UNCHANGED <<monitor_vars, texts, ground_truth_terms, extractor, results_dir>>

Next ==
    \/ ExtractKeyTerms
    \/ ExtractKeyTermsRaises
    \/ EnsureCriticalTerms
    \/ EnsureGroundTruthTerms
    \/ FilterRelevantTerms
    \/ MapTermsToSections
    \/ SaveTermExtractionResults
    \/ NextDocument
    \/ LoadTermsAndMap
    \/ StartRun

Spec == Init /\ [][Next]_vars

\* ------------------------------------------------------------------------
\* Curation of one document over a wider set of texts and candidate sets
\* ------------------------------------------------------------------------

OneDoc == "a_text.txt"

Fragments ==
    {"", "Confidentiality ", "SECURITY DEPOSIT", "security", " deposit",
     "Employee's Duties", "term"}

CurationTexts == {a \o b : a \in Fragments, b \in Fragments}

CandidateTerms == {"term", "confidentiality", "rent"}

CurationGroundTruth == {"term", "security deposit"}

OneDocStart ==
    /\ MonitorIdle
    /\ doc_order = <<OneDoc>>
    /\ results_dir = EmptyDir
    /\ doc_idx = 1
    /\ NoLocals
    /\ run = 1
    /\ prev_results = EmptyDir

InitCuration ==
    /\ OneDocStart
    /\ texts \in [{OneDoc} -> CurationTexts]
    /\ ground_truth_terms \in SUBSET CurationGroundTruth
    /\ extractor \in [{OneDoc} -> {Answer(S) : S \in SUBSET CandidateTerms}]
    /\ pc = "extract"

NextCuration ==
    \/ ExtractKeyTerms
    \/ EnsureCriticalTerms
    \/ EnsureGroundTruthTerms
    \/ FilterRelevantTerms

SpecCuration == InitCuration /\ [][NextCuration]_vars

\* ------------------------------------------------------------------------
\* Section splitting over every short text of a small alphabet
\* ------------------------------------------------------------------------

MaxLen == 6

SplitAlphabet == {"1", ".", " ", "a"}

RECURSIVE StringsUpTo(_)
StringsUpTo(n) ==
    IF n = 0 THEN {""}
    ELSE LET shorter == StringsUpTo(n - 1)
         IN  shorter \cup {t \o c : t \in shorter, c \in SplitAlphabet}

InitSplit ==
    /\ OneDocStart
    /\ texts \in [{OneDoc} -> StringsUpTo(MaxLen)]
    /\ ground_truth_terms = {}
    /\ extractor = [d \in {OneDoc} |-> Answer({})]
    /\ pc = "map"

NextSplit == MapTermsToSections

SpecSplit == InitSplit /\ [][NextSplit]_vars

\* ------------------------------------------------------------------------
\* Parsing of record files with arbitrary lines
\* ------------------------------------------------------------------------

MaxLines == 3

ParseLines == {"- a", "Term: a", "Term: b", "Section: s", "---", ""}

RECURSIVE ContentsUpTo(_)
ContentsUpTo(n) ==
    IF n = 0 THEN {""}
    ELSE LET shorter == ContentsUpTo(n - 1)
         IN  shorter \cup {t \o line \o "\n" : t \in shorter, line \in ParseLines}

InitParse ==
    /\ MonitorIdle
    /\ texts = EmptyDir
    /\ doc_order = << >>
    /\ ground_truth_terms = {}
    /\ extractor = EmptyDir
    /\ results_dir \in [{"a_terms.txt"} -> ContentsUpTo(MaxLines)]
    /\ pc = "done"
    /\ doc_idx = 1
    /\ NoLocals
    /\ run = 1
    /\ prev_results = EmptyDir

NextParse == LoadTermsAndMap

SpecParse == InitParse /\ [][NextParse]_vars

\* ------------------------------------------------------------------------
\* update.py : TermExtractionUpdater
\* ------------------------------------------------------------------------

MaxWrites == 3

QuietTicks == 2

ResultsDirectory == "term_extraction_results"

MonitorFiles == {"a_terms.txt", "b_terms.txt"}

\* record files as save_term_extraction_results writes them; the last one
\* holds a term with a colon
MonitorContents ==
    {RecordText(<<"term">>, <<[term |-> "term", sections |-> <<"1. Term">>]>>),
     RecordText(<<"term", "rent">>, <<[term |-> "rent", sections |-> <<"2. Rent">>]>>),
     RecordText(<<"note: x">>, <<[term |-> "note: x", sections |-> <<"Note: x">>]>>)}

\* os.path.join
join(directory, filename) == directory \o "/" \o filename

RECURSIVE basename(_)
\* os.path.basename
basename(path) ==
    LET p == FindChar(path, "/", 1)
    IN  IF p > Len(path) THEN path ELSE basename(SubSeq(path, p + 1, Len(path)))

endswith(s_, suffix) ==
    Len(s_) >= Len(suffix) /\ SubSeq(s_, Len(s_) - Len(suffix) + 1, Len(s_)) = suffix

\* compute_file_hash of a file with this content: MD5, taken as free of
\* collisions, so that a digest stands for exactly one content
compute_file_hash(content) == <<"md5", content>>

\* the (list(terms), term_section_map) pairs the updater's parser can return
Parses(content) ==
    LET parsed == Updater_parse_term_extraction_results(content)
    IN  IF parsed.raised THEN {}
        ELSE {[terms |-> l, term_section_map |-> parsed.term_section_map] :
                 l \in ListsOf(parsed.terms)}

\* os.listdir filtered on the suffix of record files
RecordFiles(dir) == {f \in DOMAIN dir : endswith(f, "_terms.txt")}

RemoveFile(dir, f) == [g \in DOMAIN dir \ {f} |-> dir[g]]

CrashPositions == {"FileNotFoundError", "KeyError"}

PipelineIdle ==
    /\ texts = EmptyDir
    /\ doc_order = << >>
    /\ ground_truth_terms = {}
    /\ extractor = EmptyDir
    /\ pc = "off"
    /\ doc_idx = 1
    /\ NoLocals
    /\ run = 1
    /\ prev_results = EmptyDir

\* __init__ has loaded every record file and hashed it, and monitor_changes starts
InitMonitor ==
    /\ PipelineIdle
    /\ \E present \in SUBSET MonitorFiles :
          /\ present # {}
          /\ results_dir \in [present -> MonitorContents]
    /\ \A f \in DOMAIN results_dir : Parses(results_dir[f]) # {}
    /\ term_extraction_results \in [DOMAIN results_dir -> UNION {Parses(c) : c \in MonitorContents}]
    /\ \A f \in DOMAIN results_dir : term_extraction_results[f] \in Parses(results_dir[f])
    /\ \E order \in ListsOf(RecordFiles(results_dir)) :
          file_hashes = [i \in 1..Len(order) |->
                            [path |-> join(ResultsDirectory, order[i]),
                             hash |-> compute_file_hash(results_dir[order[i]])]]
    /\ mpc = "sleep"
    /\ hash_idx = 1
    /\ listing = << >>
    /\ loading = EmptyDir
    /\ displayed = << >>
    /\ writes = 0
    /\ touched = {}
    /\ quiet = QuietTicks

hash_file == basename(file_hashes[hash_idx].path)

Min(a, b) == IF a < b THEN a ELSE b

\* the for loop of monitor_changes goes to its next entry, or the tick ends
NextEntry ==
    IF hash_idx < Len(file_hashes)
    THEN /\ hash_idx' = hash_idx + 1
         /\ mpc' = "hash"
         /\ quiet' = quiet
    ELSE /\ hash_idx' = 1
         /\ mpc' = "sleep"
         /\ quiet' = IF touched = {} THEN Min(quiet + 1, QuietTicks) ELSE quiet

\* time.sleep(1), then the for loop starts
Sleep ==
    /\ mpc = "sleep"
    /\ file_hashes # << >>
    /\ mpc' = "hash"
    /\ hash_idx' = 1
    /\ touched' = {}
    /\ displayed' = << >>
    /\ UNCHANGED <<pipeline_vars, term_extraction_results, file_hashes, listing, loading,
                   writes, quiet>>

\* new_hash == old_hash
NoChangeDetected ==
    /\ mpc = "hash"
    /\ hash_file \in DOMAIN results_dir
    /\ compute_file_hash(results_dir[hash_file]) = file_hashes[hash_idx].hash
    /\ NextEntry
    /\ UNCHANGED <<pipeline_vars, term_extraction_results, file_hashes, listing, loading,
                   displayed, writes, touched>>

\* variant: the record files that have no entry yet are given one
DetectModificationWatchingNew ==
    /\ mpc = "hash"
    /\ hash_file \in DOMAIN results_dir
    /\ compute_file_hash(results_dir[hash_file]) # file_hashes[hash_idx].hash
    /\ \E order \in ListsOf({f \in RecordFiles(results_dir) :
                               \A i \in 1..Len(file_hashes) :
                                   file_hashes[i].path # join(ResultsDirectory, f)}) :
          file_hashes' =
              [file_hashes EXCEPT ![hash_idx].hash = compute_file_hash(results_dir[hash_file])]
              \o [i \in 1..Len(order) |->
                     [path |-> join(ResultsDirectory, order[i]),
                      hash |-> compute_file_hash(results_dir[order[i]])]]
    /\ mpc' = "listdir"
    /\ UNCHANGED <<pipeline_vars, term_extraction_results, hash_idx, listing, loading,
                   displayed, writes, touched, quiet>>

\* new_hash != old_hash: the new hash is stored, the reload begins
DetectModification ==
    /\ mpc = "hash"
    /\ hash_file \in DOMAIN results_dir
    /\ compute_file_hash(results_dir[hash_file]) # file_hashes[hash_idx].hash
    /\ file_hashes' = [file_hashes EXCEPT ![hash_idx].hash = compute_file_hash(results_dir[hash_file])]
    /\ mpc' = "listdir"
    /\ UNCHANGED <<pipeline_vars, term_extraction_results, hash_idx, listing, loading,
                   displayed, writes, touched, quiet>>

\* open() in compute_file_hash fails: nothing catches the exception
ComputeFileHashRaises ==
    /\ mpc = "hash"
    /\ hash_file \notin DOMAIN results_dir
    /\ mpc' = "FileNotFoundError"
    /\ UNCHANGED <<pipeline_vars, term_extraction_results, file_hashes, hash_idx, listing,
                   loading, displayed, writes, touched, quiet>>

\* load_term_extraction_results: os.listdir
LoadListdir ==
    /\ mpc = "listdir"
    /\ listing' \in ListsOf(RecordFiles(results_dir))
    /\ loading' = EmptyDir
    /\ mpc' = "read"
    /\ UNCHANGED <<pipeline_vars, term_extraction_results, file_hashes, hash_idx,
                   displayed, writes, touched, quiet>>

\* load_term_extraction_results: one file is read and parsed
LoadRead ==
    /\ mpc = "read"
    /\ listing # << >>
    /\ Head(listing) \in DOMAIN results_dir
    /\ \E parsed \in Parses(results_dir[Head(listing)]) :
          loading' = WriteFile(loading, Head(listing), parsed)
    /\ listing' = Tail(listing)
    /\ UNCHANGED <<pipeline_vars, term_extraction_results, file_hashes, mpc, hash_idx,
                   displayed, writes, touched, quiet>>

\* load_term_extraction_results: the file is gone, or the parser raises
LoadRaises ==
    /\ mpc = "read"
    /\ listing # << >>
    /\ \/ /\ Head(listing) \notin DOMAIN results_dir
          /\ mpc' = "FileNotFoundError"
       \/ /\ Head(listing) \in DOMAIN results_dir
          /\ Updater_parse_term_extraction_results(results_dir[Head(listing)]).raised
          /\ mpc' = "KeyError"
    /\ UNCHANGED <<pipeline_vars, term_extraction_results, file_hashes, hash_idx, listing,
                   loading, displayed, writes, touched, quiet>>

\* variant: of what was loaded, only the record of the changed file is kept
LoadReturnOnlyChanged ==
    /\ mpc = "read"
    /\ listing = << >>
    /\ term_extraction_results' =
          IF hash_file \in DOMAIN loading
          THEN WriteFile(term_extraction_results, hash_file, loading[hash_file])
          ELSE RemoveFile(term_extraction_results, hash_file)
    /\ loading' = EmptyDir
    /\ mpc' = "display"
    /\ UNCHANGED <<pipeline_vars, file_hashes, hash_idx, listing, displayed, writes,
                   touched, quiet>>

\* load_term_extraction_results returns; its result replaces the old one
LoadReturn ==
    /\ mpc = "read"
    /\ listing = << >>
    /\ term_extraction_results' = loading
    /\ loading' = EmptyDir
    /\ mpc' = "display"
    /\ UNCHANGED <<pipeline_vars, file_hashes, hash_idx, listing, displayed, writes,
                   touched, quiet>>

\* what display_terms logs for a document
Shown(filename, result) ==
    LET mapped(term) == term \in DictKeys(result.term_section_map)
    IN  [filename |-> filename,
         terms |-> SelectSeq(result.terms, mapped),
         term_section_map |-> result.term_section_map]

DisplayUpdatedDocument ==
    /\ mpc = "display"
    /\ hash_file \in DOMAIN term_extraction_results
    /\ displayed' = Append(displayed, Shown(hash_file, term_extraction_results[hash_file]))
    /\ NextEntry
    /\ UNCHANGED <<pipeline_vars, term_extraction_results, file_hashes, listing, loading,
                   writes, touched>>

\* self.term_extraction_results[filename] has no such key
DisplayRaises ==
    /\ mpc = "display"
    /\ hash_file \notin DOMAIN term_extraction_results
    /\ mpc' = "KeyError"
    /\ UNCHANGED <<pipeline_vars, term_extraction_results, file_hashes, hash_idx, listing,
                   loading, displayed, writes, touched, quiet>>

\* another process writes a record file (new content, or a new file)
WriterWrites ==
    /\ mpc \notin CrashPositions
    /\ writes < MaxWrites
    /\ \E f \in MonitorFiles, content \in MonitorContents :
          /\ f \in DOMAIN results_dir => results_dir[f] # content
          /\ results_dir' = WriteFile(results_dir, f, content)
          /\ touched' = touched \cup {f}
    /\ writes' = writes + 1
    /\ quiet' = 0
    /\ UNCHANGED <<texts, doc_order, ground_truth_terms, extractor, pc, doc_idx,
                   extracted_set, extracted_terms, ensured_terms, relevant_terms, sections,
                   term_section_map, terms_map, run, prev_results,
                   term_extraction_results, file_hashes, mpc, hash_idx, listing, loading,
                   displayed>>

\* another process deletes a record file
WriterDeletes ==
    /\ mpc \notin CrashPositions
    /\ writes < MaxWrites
    /\ \E f \in DOMAIN results_dir :
          /\ results_dir' = RemoveFile(results_dir, f)
          /\ touched' = touched \cup {f}
    /\ writes' = writes + 1
    /\ quiet' = 0
    /\ UNCHANGED <<texts, doc_order, ground_truth_terms, extractor, pc, doc_idx,
                   extracted_set, extracted_terms, ensured_terms, relevant_terms, sections,
                   term_section_map, terms_map, run, prev_results,
                   term_extraction_results, file_hashes, mpc, hash_idx, listing, loading,
                   displayed>>

NextMonitor ==
    \/ Sleep
    \/ NoChangeDetected
    \/ DetectModification
    \/ ComputeFileHashRaises
    \/ LoadListdir
    \/ LoadRead
    \/ LoadRaises
    \/ LoadReturn
    \/ DisplayUpdatedDocument
    \/ DisplayRaises
    \/ WriterWrites
    \/ WriterDeletes

SpecMonitor == InitMonitor /\ [][NextMonitor]_vars

\* positions of monitor_changes while the loop runs: the sleep between two
\* ticks, and the statements of the for loop
LoopPositions == {"sleep", "hash", "listdir", "read", "display"}

\* an external signal (SIGINT) reaches the process: no handler is installed
\* and nothing catches the exception, so it is raised at the statement the
\* loop is executing, whichever that is
KeyboardInterrupt ==
    /\ mpc \in LoopPositions
    /\ mpc' = "KeyboardInterrupt"
    /\ UNCHANGED <<texts, doc_order, ground_truth_terms, extractor, results_dir, pc, doc_idx,
                   extracted_set, extracted_terms, ensured_terms, relevant_terms, sections,
                   term_section_map, terms_map, run, prev_results,
                   term_extraction_results, file_hashes, hash_idx, listing, loading,
                   displayed, writes, touched, quiet>>

\* the monitor, its external writer, and an external signal
NextCancel ==
    \/ Sleep
    \/ NoChangeDetected
    \/ DetectModification
    \/ ComputeFileHashRaises
    \/ LoadListdir
    \/ LoadRead
    \/ LoadRaises
    \/ LoadReturn
    \/ DisplayUpdatedDocument
    \/ DisplayRaises
    \/ WriterWrites
    \/ WriterDeletes
    \/ KeyboardInterrupt

SpecCancel == InitMonitor /\ [][NextCancel]_vars

\* ------------------------------------------------------------------------
\* Properties
\* ------------------------------------------------------------------------

\* the same keys with the same section lists
SameRecord(d, e) ==
    /\ DictKeys(d) = DictKeys(e)
    /\ \A k \in DictKeys(d) : DictGet(d, k) = DictGet(e, k)

\* C1: round-trip law. Once process_files has saved the (terms, record) of a
\* document, parsing the text of the record file, with the parser of
\* evaluate.py or with the updater's, gives back the same terms in the same
\* order and a record with the same keys and section lists.
RoundTripLaw ==
    pc = "next" =>
        LET content == results_dir[RecordName(cur_file)]
            parsed == parse_term_extraction_results(content)
            reloaded == Updater_parse_term_extraction_results(content)
        IN  /\ ~parsed.raised
            /\ parsed.terms = relevant_terms
            /\ SameRecord(parsed.term_section_map, term_section_map)
            /\ ~reloaded.raised
            /\ ListsOf(reloaded.terms) = {relevant_terms}
            /\ SameRecord(reloaded.term_section_map, term_section_map)

\* C2: subset law. Every term of the list and every key of the
\* term_section_map that process_files saves is a ground-truth term.
SubsetLaw ==
    pc \in {"save", "next"} =>
        /\ Range(relevant_terms) \subseteq ground_truth_terms
        /\ DictKeys(term_section_map) \subseteq ground_truth_terms

\* a record with a mapped term was saved for a document whose candidate set
\* held a term outside the ground truth
SubsetLawWitness ==
    /\ pc = "next"
    /\ RecordName(cur_file) \in DOMAIN results_dir
    /\ term_section_map # << >>
    /\ ~(extractor[cur_file].terms \subseteq ground_truth_terms)

\* C3: idempotence. A second run over the same texts, candidate sets and
\* ground truth leaves every record file with the content the first run wrote.
Idempotence ==
    (run > 1 /\ pc = "done") => results_dir = prev_results

\* C7: per-document failure isolation. When process_files has ended, every
\* document whose extraction did not fail has its record file, and a document
\* whose extraction failed has none.
FailureIsolation ==
    pc \in {"done", "raised"} =>
        \A d \in DOMAIN texts :
            extractor[d].ok <=> RecordName(d) \in DOMAIN results_dir

\* t occurs in s when letter case is ignored
ContainsIgnoreCase(s, t) ==
    \E i \in 1..(Len(s) - Len(t) + 1) :
        \A k \in 1..Len(t) : LowerChar(CharAt(s, i + k - 1)) = LowerChar(CharAt(t, k))

\* C8: critical-term gating. The list ensure_critical_terms returns has as
\* elements exactly the candidates and the critical terms that occur in the
\* text when case is ignored.
CriticalTermGating ==
    pc = "ground" =>
        Range(extracted_terms) =
            extractor[cur_file].terms
                \cup {t \in Range(critical_terms) : ContainsIgnoreCase(cur_text, t)}

\* "confidentiality" was added for a text that spells it with a capital, and
\* "security deposit", absent from the text, was not
CriticalTermGatingWitness ==
    /\ pc = "ground"
    /\ "confidentiality" \in Range(extracted_terms)
    /\ "confidentiality" \notin extractor[cur_file].terms
    /\ "security deposit" \notin Range(extracted_terms)
    /\ Contains(cur_text, "Confidentiality")

\* C9: section reconstruction. The sections re.split returns concatenate to
\* the text.
SectionReconstruction ==
    pc = "save" => JoinAll(sections) = cur_text

\* a text that was split at two heading boundaries
SectionReconstructionWitness ==
    /\ pc = "save"
    /\ Len(sections) >= 3
    /\ sections[2] # ""

\* C10: tolerant parsing. Loading a record file never raises, whatever its
\* content; a "Term: b" line for a term b that no bullet listed makes b the
\* current term, and the "Section:" line after it goes to b's section list.
TolerantParsing ==
    /\ pc # "eval_raised"
    /\ pc = "evaluated" =>
          \A f \in DOMAIN results_dir :
              results_dir[f] = "Term: b\nSection: s\n" =>
                  SameRecord(terms_map[f].term_section_map,
                             <<[term |-> "b", sections |-> <<"s">>]>>)

\* the files file_hashes has an entry for
Watched == {basename(file_hashes[i].path) : i \in 1..Len(file_hashes)}

\* the in-memory (terms, record) of f is a parse of its present content
InMemoryCurrent(f) ==
    /\ f \in DOMAIN term_extraction_results
    /\ term_extraction_results[f] \in Parses(results_dir[f])

\* C4: change detection. While the watched files exist and nothing has been
\* written since the tick began, the tick does not die; every entry it has
\* passed holds the hash of the present content; what it displayed is the
\* parse of the present content; and once a full tick has passed without a
\* write, later ticks detect nothing, reload nothing and display nothing.
ChangeDetection ==
    (touched = {} /\ Watched \subseteq DOMAIN results_dir) =>
        /\ mpc \notin CrashPositions
        /\ \A i \in 1..Len(file_hashes) :
              (mpc = "sleep" \/ i < hash_idx) =>
                  file_hashes[i].hash =
                      compute_file_hash(results_dir[basename(file_hashes[i].path)])
        /\ \A i \in 1..Len(displayed) :
              /\ InMemoryCurrent(displayed[i].filename)
              /\ \E parsed \in Parses(results_dir[displayed[i].filename]) :
                     displayed[i] = Shown(displayed[i].filename, parsed)
        /\ (quiet >= 1 /\ mpc # "sleep") => (mpc = "hash" /\ displayed = << >>)

\* C5: reconciliation. Once QuietTicks full ticks have passed since the last
\* write, the in-memory (terms, record) of every watched file is a parse of
\* the file's present content.
Reconciliation ==
    quiet = QuietTicks =>
        \A f \in Watched : f \in DOMAIN results_dir => InMemoryCurrent(f)

\* C6: deleted file. The step that hashes a watched file that no longer
\* exists leaves the monitor in its polling loop.
DeletedFileTolerated ==
    [][(mpc = "hash" /\ hash_file \notin DOMAIN results_dir) => mpc' \in {"hash", "sleep"}]_vars

\* C11: cancellation. An external cancellation stops the monitor loop only at
\* a poll boundary: the loop is between two ticks when it stops, so a tick in
\* progress is never cut short.
Cancellation ==
    [][mpc' = "KeyboardInterrupt" => mpc = "sleep"]_vars

\* number of positions of seq that hold x
Count(seq, x) == Cardinality({i \in 1..Len(seq) : seq[i] = x})

\* the elements of sub stand in seq, in the same relative order
InOrderOf(sub, seq) ==
    \A i, j \in 1..Len(sub) :
        i < j => \E m, n \in 1..Len(seq) : m < n /\ seq[m] = sub[i] /\ seq[n] = sub[j]

\* C12: ground-truth recall of curation. After ensure_critical_terms,
\* ensure_ground_truth_terms and filter_relevant_terms, every ground-truth
\* term that occurs in the text when case is ignored stands exactly once in
\* the list, and the list keeps the relative order of the list it was
\* filtered from.
GroundTruthRecall ==
    pc = "map" =>
        /\ \A t \in ground_truth_terms :
              ContainsIgnoreCase(cur_text, t) => Count(relevant_terms, t) = 1
        /\ Range(relevant_terms) = Range(ensured_terms) \cap ground_truth_terms
        /\ InOrderOf(relevant_terms, ensured_terms)

\* two ground-truth terms were kept, one of them spelled in capitals in the
\* text and not a candidate, and a candidate outside the ground truth was
\* dropped
GroundTruthRecallWitness ==
    /\ pc = "map"
    /\ Len(relevant_terms) = 2
    /\ "security deposit" \in Range(relevant_terms)
    /\ "security deposit" \notin extractor[cur_file].terms
    /\ Contains(cur_text, "SECURITY DEPOSIT")
    /\ "rent" \in Range(ensured_terms)

\* the entries of file_hashes other than the one of the for loop stay as they are
OtherHashesKept ==
    /\ Len(file_hashes') = Len(file_hashes)
    /\ \A i \in 1..Len(file_hashes) :
          /\ file_hashes'[i].path = file_hashes[i].path
          /\ i # hash_idx => file_hashes'[i].hash = file_hashes[i].hash

\* the document displayed by the step is the changed file with its record in memory
NotifiesChangedFile ==
    (mpc = "display" /\ displayed' # displayed) =>
        displayed' = Append(displayed, Shown(hash_file, term_extraction_results[hash_file]))

\* C13 (as stated): per-file reload. A step of the tick that handles the
\* changed file F touches only F's stored hash and only F's in-memory
\* (terms, record): every other file has the same in-memory entry, or none,
\* before and after the step, and what is displayed is F's record.
PerFileReload ==
    [][/\ OtherHashesKept
       /\ \A g \in (DOMAIN term_extraction_results \cup DOMAIN term_extraction_results')
                      \ {hash_file} :
             /\ g \in DOMAIN term_extraction_results
             /\ g \in DOMAIN term_extraction_results'
             /\ term_extraction_results'[g] = term_extraction_results[g]
       /\ NotifiesChangedFile]_vars

\* C13 (amended): when a tick finds the hash of F changed, only F's stored
\* hash is updated, but the in-memory results are replaced by a reload of the
\* whole directory: after the reload, every record file that was not written
\* during the tick is in memory exactly if it is in the directory, with a parse
\* of its content, whether it is F or not. What is displayed is F's record
\* of that reload.
ReloadOfDirectory ==
    [][/\ OtherHashesKept
       /\ term_extraction_results' # term_extraction_results =>
             mpc = "read" /\ mpc' = "display"
       /\ (mpc = "read" /\ mpc' = "display") =>
             \A g \in MonitorFiles \ touched :
                 /\ g \in DOMAIN term_extraction_results' <=> g \in RecordFiles(results_dir)
                 /\ g \in RecordFiles(results_dir) =>
                       term_extraction_results'[g] \in Parses(results_dir[g])
       /\ NotifiesChangedFile]_vars

\* F was displayed in this tick, and another watched file, written before the
\* tick and not yet compared, is in memory with its new content while its
\* stored hash is still the old one
ReloadOfDirectoryWitness ==
    /\ mpc = "hash"
    /\ touched = {}
    /\ Len(displayed) = 1
    /\ hash_file # displayed[1].filename
    /\ hash_file \in DOMAIN results_dir
    /\ compute_file_hash(results_dir[hash_file]) # file_hashes[hash_idx].hash
    /\ InMemoryCurrent(hash_file)

\* the keys of file_hashes, in dict order
PathsOf(hashes) == [i \in 1..Len(hashes) |-> hashes[i].path]

\* C14: fixed watch set. No step adds a path to file_hashes or removes one
\* from it: monitor_changes only overwrites the hash of an existing key. So a
\* record file created after the start is never compared and never displayed
\* for a change of its own: every document displayed is one of the watched
\* files.
FixedWatchSet ==
    [][/\ PathsOf(file_hashes') = PathsOf(file_hashes)
       /\ (mpc = "hash" /\ mpc' \in {"listdir", "FileNotFoundError"}) =>
             join(ResultsDirectory, hash_file) \in Range(PathsOf(file_hashes'))
       /\ \A i \in 1..Len(displayed') :
             join(ResultsDirectory, displayed'[i].filename) \in Range(PathsOf(file_hashes'))]_vars

\* a record file that is not watched lies in the directory and has been
\* brought into memory by a reload, and whole ticks have passed since the
\* last write without it being displayed
FixedWatchSetWitness ==
    /\ mpc = "sleep"
    /\ quiet = QuietTicks
    /\ \E f \in RecordFiles(results_dir) :
          /\ f \notin Watched
          /\ InMemoryCurrent(f)
====
